---- MODULE Spec2Model ----
(***************************************************************************)
(* One-electron AO integral assembly and orthonormalization of ChronusQ:   *)
(* AOIntegrals::OneEDriver, AOIntegrals::computeAOOneE and                 *)
(* AOIntegrals::computeOrtho (src/src/aointegrals/aointegrals_builders.cxx)*)
(*                                                                         *)
(* Matrices are flat buffers indexed from 0 as in the source: element      *)
(* (i,j) of a column-major NB x NB matrix is buffer[i + j*NB].             *)
(***************************************************************************)
EXTENDS Integers, Sequences, FiniteSets, TLC

\* ------------------------------------------------------------------ bounds
MaxShells    == 2   \* shells in a shell set
MaxBasis     == 3   \* basis functions (NB) of a shell set
MaxThreads   == 2   \* omp_get_max_threads() in OneEDriver
MaxWorkers   == 3   \* omp_get_max_threads() in computeAOOneE
MaxMats      == 2   \* result components of a multi-component engine (1 otherwise)
MaxNB        == 2   \* basis size of the core Hamiltonian / orthogonalization
MaxCalls     == 2   \* computeOrtho calls on one aggregate
MaxDiag      == 2   \* largest diagonal entry of the factor an overlap is built from

VARIABLES
  \* --- OneEDriver
  shells,       \* shell_set: sequence of shell sizes (libint2::Shell::size())
  nthreads,     \* omp_get_max_threads()
  screened,     \* engine oracle: pair indices s12 the engine screens
  nMats,        \* engines[0].results().size()
  mats,         \* mats[iMat]: flat column-major NB x NB buffer
  thr,          \* per-thread loop state of the parallel region
  evaluatedBy,  \* history: s12 -> threads that called compute on the pair
  writtenBy,    \* history: s12 -> threads that wrote the pair's blocks
  dpc,          \* position in OneEDriver
  \* --- computeAOOneE (core Hamiltonian)
  nSQ,          \* nSQ_
  kinetic, potential, coreH,
  chunk,        \* the schedule(static,chunk) argument
  done,         \* per-thread set of loop indices already executed
  cpc,          \* position in computeAOOneE
  \* --- computeOrtho
  nBasis,       \* basisSet_.nBasis
  mem,          \* CQMemManager: block id -> contents, or Free
  overlap, ortho1, ortho2, SCR1,   \* pointers (block ids; 0 is null)
  orthoType,    \* AOIntegrals::orthoType_
  opc,          \* position in computeOrtho
  hist          \* history of the current/previous computeOrtho calls

dvars == <<shells, nthreads, screened, nMats, mats, thr, evaluatedBy, writtenBy, dpc>>
cvars == <<nSQ, kinetic, potential, coreH, chunk, done, cpc>>
ovars == <<nBasis, mem, overlap, ortho1, ortho2, SCR1, orthoType, opc, hist>>
vars  == <<dvars, cvars, ovars>>

\* ================================================================ OneEDriver

RECURSIVE SumTo(_, _)
\* sum of the sizes of the first k shells of sh
SumTo(sh, k) == IF k = 0 THEN 0 ELSE SumTo(sh, k - 1) + sh[k]

\* std::accumulate over sh.size()
NBof(sh) == SumTo(sh, Len(sh))

\* shells[s].size(), s counted from 0
ShellSize(s) == shells[s + 1]

\* number of unique pairs (s1,s2), s2 <= s1
NPairs(sh) == (Len(sh) * (Len(sh) + 1)) \div 2

\* the integral the engine produces for basis functions (i,j), component iMat;
\* non-zero, and different for (i,j) and (j,i)
EngineVal(iMat, i, j) == 1 + iMat + 3 * (i + 7 * j)

\* the index of the unique pair (s1,s2), s2 <= s1, in loop order
PairIndex(s1, s2) == (s1 * (s1 + 1)) \div 2 + s2

\* engines[thread_id].compute(shells[s1],shells[s2]): per component a row-major
\* n1 x n2 block of the integrals over the basis functions of the two shells;
\* null is buf_vec[0] == nullptr (a screened pair, whose buf_vec is then never
\* read). The result depends on the two shells only: every thread's engine is a
\* copy of engines[0], and the engine knows nothing of the driver's offsets.
EngineCompute(s1, s2) ==
  LET n1 == ShellSize(s1)
      n2 == ShellSize(s2)
  IN  [null |-> PairIndex(s1, s2) \in screened,
       buf_vec |-> [iMat \in 0..(nMats - 1) |->
                      [k \in 0..(n1 * n2 - 1) |->
                         EngineVal(iMat, SumTo(shells, s1) + (k \div n2),
                                   SumTo(shells, s2) + (k % n2))]]]

\* mutant: the block is accumulated (+=) instead of assigned
BlockAssign_Accumulate(mat, NB, bf1, bf2, n1, n2, buf) ==
  [idx \in DOMAIN mat |->
     LET i == idx % NB
         j == idx \div NB
     IN  IF i >= bf1 /\ i < bf1 + n1 /\ j >= bf2 /\ j < bf2 + n2
         THEN mat[idx] + buf[(i - bf1) * n2 + (j - bf2)]
         ELSE mat[idx]]

\* matMaps[iMat].block(bf1_s,bf2_s,n1,n2) = bufMat   (bufMat row-major n1 x n2)
BlockAssign(mat, NB, bf1, bf2, n1, n2, buf) ==
  [idx \in DOMAIN mat |->
     LET i == idx % NB
         j == idx \div NB
     IN  IF i >= bf1 /\ i < bf1 + n1 /\ j >= bf2 /\ j < bf2 + n2
         THEN buf[(i - bf1) * n2 + (j - bf2)]
         ELSE mat[idx]]

\* mutant: the column offset is advanced by the size of the row shell
LoopAdvance_WrongSize(st) ==
  LET n1 == ShellSize(st.s1)
  IN  IF st.s2 + 1 <= st.s1
      THEN [st EXCEPT !.s2 = @ + 1, !.bf2_s = @ + n1, !.s12 = @ + 1]
      ELSE [st EXCEPT !.s2 = 0, !.bf2_s = 0, !.s12 = @ + 1,
                      !.s1 = @ + 1, !.bf1_s = @ + n1,
                      !.pc = IF st.s1 + 1 < Len(shells) THEN "loop" ELSE "end"]

\* the increment expressions of the two for loops, run after a pair's body
\* (also after `continue`)
LoopAdvance(st) ==
  LET n1 == ShellSize(st.s1)
      n2 == ShellSize(st.s2)
  IN  IF st.s2 + 1 <= st.s1
      THEN [st EXCEPT !.s2 = @ + 1, !.bf2_s = @ + n2, !.s12 = @ + 1]
      ELSE [st EXCEPT !.s2 = 0, !.bf2_s = 0, !.s12 = @ + 1,
                      !.s1 = @ + 1, !.bf1_s = @ + n1,
                      !.pc = IF st.s1 + 1 < Len(shells) THEN "loop" ELSE "end"]

\* mutant: the symmetrization pass is skipped
SelfAdjointLower_Skipped(mat, NB) == mat

\* M = M.selfadjointView<Eigen::Lower>()
SelfAdjointLower(mat, NB) ==
  [idx \in DOMAIN mat |->
     LET i == idx % NB
         j == idx \div NB
     IN  IF i >= j THEN mat[idx] ELSE mat[j + i * NB]]

\* the shell sets: 1..MaxShells shells of at least one basis function each,
\* MaxBasis basis functions at most in all
ShellSets ==
  { sh \in UNION { [1..n -> 1..MaxBasis] : n \in 1..MaxShells } :
      NBof(sh) <= MaxBasis }

InitDriverVars ==
  /\ shells \in ShellSets
  /\ nthreads \in 1..MaxThreads
  /\ screened \in SUBSET (0..(NPairs(shells) - 1))
  /\ nMats \in {1, MaxMats}
  /\ mats = [iMat \in 0..(nMats - 1) |->
               [idx \in 0..(NBof(shells) * NBof(shells) - 1) |-> 0]]
  /\ thr = [t \in 0..(nthreads - 1) |->
              [pc |-> "loop", s1 |-> 0, s2 |-> 0, bf1_s |-> 0, bf2_s |-> 0,
               s12 |-> 0]]
  /\ evaluatedBy = [p \in 0..(NPairs(shells) - 1) |-> {}]
  /\ writtenBy = [p \in 0..(NPairs(shells) - 1) |-> {}]
  /\ dpc = "parallel"

\* mutant: the null check is missing and the blocks of a screened pair are
\* placed like any other
PairScreened_NoCheck(t) ==
  /\ dpc = "parallel"
  /\ thr[t].pc = "loop"
  /\ LET st  == thr[t]
         n1  == ShellSize(st.s1)
         n2  == ShellSize(st.s2)
         res == EngineCompute(st.s1, st.s2)
     IN  /\ res.null
         /\ mats' = [iMat \in DOMAIN mats |->
                       BlockAssign(mats[iMat], NBof(shells), st.bf1_s, st.bf2_s,
                                   n1, n2, res.buf_vec[iMat])]
         /\ evaluatedBy' = [evaluatedBy EXCEPT ![st.s12] = @ \cup {t}]
         /\ thr' = [thr EXCEPT ![t] = LoopAdvance(st)]
  /\ UNCHANGED <<shells, nthreads, screened, nMats, writtenBy, dpc>>
  /\ UNCHANGED <<cvars, ovars>>

\* one pass of the loop body for a screened pair: compute, then `continue`
PairScreened(t) ==
  /\ dpc = "parallel"
  /\ thr[t].pc = "loop"
  /\ LET st == thr[t]
     IN  /\ EngineCompute(st.s1, st.s2).null
         /\ evaluatedBy' = [evaluatedBy EXCEPT ![st.s12] = @ \cup {t}]
         /\ thr' = [thr EXCEPT ![t] = LoopAdvance(st)]
  /\ UNCHANGED <<shells, nthreads, screened, nMats, mats, writtenBy, dpc>>
  /\ UNCHANGED <<cvars, ovars>>

\* one pass of the loop body for a pair the engine evaluates: compute, then
\* place every component's block
PairWrite(t) ==
  /\ dpc = "parallel"
  /\ thr[t].pc = "loop"
  /\ LET st  == thr[t]
         n1  == ShellSize(st.s1)
         n2  == ShellSize(st.s2)
         res == EngineCompute(st.s1, st.s2)
         buf == res.buf_vec
     IN  /\ ~res.null
         /\ mats' = [iMat \in DOMAIN mats |->
                       BlockAssign(mats[iMat], NBof(shells), st.bf1_s, st.bf2_s,
                                   n1, n2, buf[iMat])]
         /\ evaluatedBy' = [evaluatedBy EXCEPT ![st.s12] = @ \cup {t}]
         /\ writtenBy' = [writtenBy EXCEPT ![st.s12] = @ \cup {t}]
         /\ thr' = [thr EXCEPT ![t] = LoopAdvance(st)]
  /\ UNCHANGED <<shells, nthreads, screened, nMats, dpc>>
  /\ UNCHANGED <<cvars, ovars>>

\* end of the OpenMP context (implicit barrier), then the symmetrization loop
\* and the return
Symmetrize ==
  /\ dpc = "parallel"
  /\ \A t \in DOMAIN thr : thr[t].pc = "end"
  /\ mats' = [iMat \in DOMAIN mats |-> SelfAdjointLower(mats[iMat], NBof(shells))]
  /\ dpc' = "returned"
  /\ UNCHANGED <<shells, nthreads, screened, nMats, thr, evaluatedBy, writtenBy>>
  /\ UNCHANGED <<cvars, ovars>>

IdleCoreH ==
  /\ nSQ = 0 /\ kinetic = <<>> /\ potential = <<>> /\ coreH = <<>>
  /\ chunk = 0 /\ done = <<>> /\ cpc = "off"

IdleOrtho ==
  /\ nBasis = 0 /\ mem = <<>> /\ overlap = 0 /\ ortho1 = 0 /\ ortho2 = 0
  /\ SCR1 = 0 /\ orthoType = "CHOLESKY" /\ opc = "off" /\ hist = <<>>

IdleDriver ==
  /\ shells = <<>> /\ nthreads = 1 /\ screened = {} /\ nMats = 0 /\ mats = <<>>
  /\ thr = <<>> /\ evaluatedBy = <<>> /\ writtenBy = <<>> /\ dpc = "off"

InitDriver == InitDriverVars /\ IdleCoreH /\ IdleOrtho

NextDriver ==
  \/ \E t \in DOMAIN thr : PairScreened(t)
  \/ \E t \in DOMAIN thr : PairWrite(t)
  \/ Symmetrize

SpecDriver == InitDriver /\ [][NextDriver]_vars

\* ------------------------------------------------- OneEDriver: properties

\* the shell whose basis-function range holds basis function i
ShellOf(i) ==
  CHOOSE s \in 0..(Len(shells) - 1) :
    SumTo(shells, s) <= i /\ i < SumTo(shells, s + 1)

BasisRange == 0..(NBof(shells) - 1)

RECURSIVE ShellSeqFrom(_, _)
ShellSeqFrom(sh, s) ==
  IF s > Len(sh) THEN <<>>
  ELSE [k \in 1..sh[s] |-> s - 1] \o ShellSeqFrom(sh, s + 1)

\* the shells of basis functions 0, 1, ..., NB-1, as a sequence (so
\* ShellMap[i + 1] = ShellOf(i))
ShellMap == ShellSeqFrom(shells, 1)

\* the pair whose block holds element (i,j), or its mirror (j,i); so = ShellMap
PairIn(so, i, j) ==
  IF so[i + 1] >= so[j + 1] THEN PairIndex(so[i + 1], so[j + 1])
  ELSE PairIndex(so[j + 1], so[i + 1])

PairOf(i, j) == PairIn(ShellMap, i, j)

Elem(iMat, i, j) == mats[iMat][i + j * NBof(shells)]

\* C1: the unique shell pairs are partitioned across the workers: each pair is
\* evaluated, and its blocks written, by exactly one worker, so no two workers
\* ever write the same region of a result matrix.
C1_PairsPartitioned ==
  /\ \A p \in DOMAIN writtenBy : Cardinality(writtenBy[p]) <= 1
  /\ dpc = "returned" =>
        \A p \in DOMAIN evaluatedBy : Cardinality(evaluatedBy[p]) = 1

\* C2: every returned matrix is exactly symmetric, M[i,j] = M[j,i], and inside
\* a diagonal shell block (s1 = s2) the upper element is the reflection of the
\* lower one the engine produced, not the engine's own upper element.
C2_Symmetric ==
  dpc = "returned" =>
    \A iMat \in DOMAIN mats : \A i, j \in BasisRange :
      /\ Elem(iMat, i, j) = Elem(iMat, j, i)
      /\ (i > j /\ ShellOf(i) = ShellOf(j) /\ PairOf(i, j) \notin screened)
            => Elem(iMat, j, i) = EngineVal(iMat, i, j)

\* C2 witness: a matrix was returned whose evaluated diagonal block has two
\* basis functions, after more than one worker ran the pair loop
C2_Witness ==
  /\ dpc = "returned" /\ nthreads >= 2
  /\ \E i, j \in BasisRange :
       /\ i > j /\ ShellOf(i) = ShellOf(j) /\ PairOf(i, j) \notin screened
       /\ EngineVal(0, i, j) # EngineVal(0, j, i)
       /\ Elem(0, j, i) = EngineVal(0, i, j)

\* C8: a screened pair never changes a matrix element: its block and the
\* mirrored block are zero in every state up to and including the return,
\* and the offsets of the pair a thread is at are the sums of the sizes of the
\* shells before s1 and before s2, whatever was screened before.
C8_ScreenedZero ==
  /\ dpc \in {"parallel", "returned"} =>
       LET so == ShellMap
           NB == NBof(shells)
       IN  \A i, j \in BasisRange :
             PairIn(so, i, j) \in screened =>
               \A iMat \in DOMAIN mats :
                 mats[iMat][i + j * NB] = 0 /\ mats[iMat][j + i * NB] = 0
  /\ \A t \in DOMAIN thr :
       thr[t].pc = "loop" =>
         /\ thr[t].bf1_s = SumTo(shells, thr[t].s1)
         /\ thr[t].bf2_s = SumTo(shells, thr[t].s2)
         /\ thr[t].s12 = PairIndex(thr[t].s1, thr[t].s2)

\* C8 witness: matrices were returned with a screened off-diagonal pair
\* followed by an evaluated pair whose block is in place
C8_Witness ==
  /\ dpc = "returned" /\ Len(shells) = 2
  /\ PairIndex(1, 0) \in screened /\ PairIndex(1, 1) \notin screened
  /\ \A i, j \in BasisRange :
       (ShellOf(i) = 1 /\ ShellOf(j) = 0) => Elem(0, i, j) = 0 /\ Elem(0, j, i) = 0
  /\ \E i \in BasisRange : ShellOf(i) = 1 /\ Elem(0, i, i) = EngineVal(0, i, i)

\* the matrix element (i,j) the shell set and the engine determine; so = ShellMap
ExpectedIn(so, iMat, i, j) ==
  LET a == IF i >= j THEN i ELSE j
      b == IF i >= j THEN j ELSE i
  IN  IF PairIn(so, a, b) \in screened THEN 0 ELSE EngineVal(iMat, a, b)

ExpectedElem(iMat, i, j) == ExpectedIn(ShellMap, iMat, i, j)

\* C9: the returned matrices are a function of the shell set and the engine
\* alone: the same for every worker count and every interleaving of the
\* workers' pair evaluations; before the return every lower-triangle element
\* is still zero or already final.
C9_OrderIndependent ==
  LET so == ShellMap
      NB == NBof(shells)
  IN  /\ dpc = "returned" =>
           \A i, j \in BasisRange : \A iMat \in DOMAIN mats :
             mats[iMat][i + j * NB] = ExpectedIn(so, iMat, i, j)
      /\ dpc = "parallel" =>
           \A i, j \in BasisRange : \A iMat \in DOMAIN mats :
             i >= j => mats[iMat][i + j * NB] \in {0, ExpectedIn(so, iMat, i, j)}

\* C9 witness: two workers, two shells, nothing screened, and the workers
\* finished in an interleaved order (worker 1 wrote the first pair last)
C9_Witness ==
  /\ dpc = "returned" /\ nthreads >= 2 /\ Len(shells) = 2 /\ screened = {}
  /\ \A p \in DOMAIN writtenBy : writtenBy[p] = DOMAIN thr
  /\ \A i, j \in BasisRange : Elem(0, i, j) = ExpectedElem(0, i, j)


\* ============================================================ computeAOOneE
\* The core Hamiltonian sum H = T + V of computeAOOneE, as a parallel-for
\* with schedule(static,chunk).

\* size_t chunk = 2*nSQ_ / omp_get_max_threads()
ChunkSize(n, W) == (2 * n) \div W

\* schedule(static,chunk) with chunk >= 1: the iterations are cut into chunks
\* of `chunk` consecutive indices, dealt to the threads round-robin
StaticOwner(i, c, W) == (i \div c) % W

\* the loop indices thread t has still to execute
Pending(t) ==
  { i \in 0..(nSQ - 1) : StaticOwner(i, chunk, nthreads) = t /\ i \notin done[t] }

Min(S) == CHOOSE x \in S : \A y \in S : x <= y

InitCoreHVars ==
  /\ \E NB \in 1..MaxNB : nSQ = NB * NB
  /\ nthreads \in 1..MaxWorkers
  /\ kinetic \in [0..(nSQ - 1) -> 1..2]
  /\ potential = [i \in 0..(nSQ - 1) |-> 3 + i]
  /\ coreH = [i \in 0..(nSQ - 1) |-> 0]
  /\ chunk = ChunkSize(nSQ, nthreads)
  /\ done = [t \in 0..(nthreads - 1) |-> {}]
  /\ cpc = "parallel"

\* one iteration of the loop body by the thread that owns it
CoreHIter(t) ==
  /\ cpc = "parallel"
  /\ chunk >= 1
  /\ Pending(t) # {}
  /\ LET i == Min(Pending(t))
     IN  /\ coreH' = [coreH EXCEPT ![i] = kinetic[i] + potential[i]]
         /\ done' = [done EXCEPT ![t] = @ \cup {i}]
  /\ UNCHANGED <<nSQ, kinetic, potential, chunk, cpc, nthreads>>
  /\ UNCHANGED <<shells, screened, nMats, mats, thr, evaluatedBy, writtenBy, dpc>>
  /\ UNCHANGED ovars

\* the implicit barrier at the end of the parallel for
CoreHJoin ==
  /\ cpc = "parallel"
  /\ chunk >= 1
  /\ \A t \in DOMAIN done : Pending(t) = {}
  /\ cpc' = "done"
  /\ UNCHANGED <<nSQ, kinetic, potential, coreH, chunk, done, nthreads>>
  /\ UNCHANGED <<shells, screened, nMats, mats, thr, evaluatedBy, writtenBy, dpc>>
  /\ UNCHANGED ovars

\* chunk = 0 is not a valid chunk size (OpenMP requires a positive one): which
\* iterations a thread then runs is up to the runtime -- any thread may run
\* any iteration, any number of times
CoreHIterNonconforming(t) ==
  /\ cpc = "parallel"
  /\ chunk = 0
  /\ \E i \in 0..(nSQ - 1) :
       /\ coreH' = [coreH EXCEPT ![i] = kinetic[i] + potential[i]]
       /\ done' = [done EXCEPT ![t] = @ \cup {i}]
  /\ UNCHANGED <<nSQ, kinetic, potential, chunk, cpc, nthreads>>
  /\ UNCHANGED <<shells, screened, nMats, mats, thr, evaluatedBy, writtenBy, dpc>>
  /\ UNCHANGED ovars

\* ... and the loop may end with any set of iterations run (or never end)
CoreHJoinNonconforming ==
  /\ cpc = "parallel"
  /\ chunk = 0
  /\ cpc' = "done"
  /\ UNCHANGED <<nSQ, kinetic, potential, coreH, chunk, done, nthreads>>
  /\ UNCHANGED <<shells, screened, nMats, mats, thr, evaluatedBy, writtenBy, dpc>>
  /\ UNCHANGED ovars

IdleDriverButThreads ==
  /\ shells = <<>> /\ screened = {} /\ nMats = 0 /\ mats = <<>>
  /\ thr = <<>> /\ evaluatedBy = <<>> /\ writtenBy = <<>> /\ dpc = "off"

InitCoreH == InitCoreHVars /\ IdleDriverButThreads /\ IdleOrtho

NextCoreH ==
  \/ \E t \in DOMAIN done : CoreHIter(t)
  \/ CoreHJoin
  \/ \E t \in DOMAIN done : CoreHIterNonconforming(t)
  \/ CoreHJoinNonconforming

SpecCoreH == InitCoreH /\ [][NextCoreH]_vars

\* C3: for every basis size and worker count the chunk size of the static
\* schedule is valid (positive), every index is run by exactly one worker, and
\* after the loop coreH[i] = kinetic[i] + potential[i] for every i in [0,NB^2).
C3_CoreHIsSum ==
  /\ cpc \in {"parallel", "done"} => chunk >= 1
  /\ cpc = "done" =>
       /\ \A i \in 0..(nSQ - 1) : coreH[i] = kinetic[i] + potential[i]
       /\ \A i \in 0..(nSQ - 1) :
            Cardinality({t \in DOMAIN done : i \in done[t]}) = 1


\* ============================================================= computeOrtho
\* Matrix elements are exact rationals <<numerator, denominator>> in lowest
\* terms with a positive denominator, so that products, quotients and the
\* square roots of the factorization are computed, not assumed.

Abs(x) == IF x < 0 THEN -x ELSE x

RECURSIVE GCD(_, _)
GCD(a, b) == IF b = 0 THEN a ELSE GCD(b, a % b)

RNorm(n, d) == LET g == GCD(Abs(n), d) IN <<n \div g, d \div g>>

Zero == <<0, 1>>
One  == <<1, 1>>
R(k) == <<k, 1>>

RAdd(a, b) == RNorm(a[1] * b[2] + b[1] * a[2], a[2] * b[2])
RNeg(a)    == <<-a[1], a[2]>>
RSub(a, b) == RAdd(a, RNeg(b))
RMul(a, b) == RNorm(a[1] * b[1], a[2] * b[2])
\* a / b for b # 0
RDiv(a, b) == IF b[1] > 0 THEN RNorm(a[1] * b[2], a[2] * b[1])
              ELSE RNorm(-(a[1] * b[2]), a[2] * (-b[1]))

\* the exact square root of a perfect square
ISqrt(k) == CHOOSE r \in 0..k : r * r = k
RSqrt(a) == <<ISqrt(a[1]), ISqrt(a[2])>>

RECURSIVE RSum(_, _, _)
\* f[lo] + ... + f[hi]
RSum(f, lo, hi) == IF lo > hi THEN Zero ELSE RAdd(f[lo], RSum(f, lo + 1, hi))

Zeros(n) == [idx \in 0..(n * n - 1) |-> Zero]

\* ------------------------------------------------- linear-algebra kernels

RECURSIVE CholFrom(_, _, _)
\* columns j, j+1, ... of the factorization A = L * L**T in the lower
\* triangle; the strict upper triangle is not referenced. A pivot that is not
\* positive stops the factorization with INFO = its (1-based) position.
CholFrom(A, n, j) ==
  IF j = n THEN [A |-> A, INFO |-> 0]
  ELSE
    LET ajj == RSub(A[j + j * n],
                    RSum([k \in 0..(j - 1) |-> RMul(A[j + k * n], A[j + k * n])],
                         0, j - 1))
    IN  IF ajj[1] <= 0
        THEN [A |-> [A EXCEPT ![j + j * n] = ajj], INFO |-> j + 1]
        ELSE
          LET r  == RSqrt(ajj)
              A1 == [idx \in DOMAIN A |->
                       LET i == idx % n
                           c == idx \div n
                       IN  IF c = j /\ i = j THEN r
                           ELSE IF c = j /\ i > j
                           THEN RDiv(RSub(A[i + j * n],
                                          RSum([k \in 0..(j - 1) |->
                                                  RMul(A[i + k * n], A[j + k * n])],
                                               0, j - 1)),
                                     r)
                           ELSE A[idx]]
          IN  CholFrom(A1, n, j + 1)

\* int Cholesky(char UPLO, int N, _F *A, int LDA)   (DPOTRF, UPLO = 'L')
Cholesky(UPLO, N, A, LDA) == CholFrom(A, N, 0)

RECURSIVE TriInv(_, _, _, _)
\* element (i,j), i >= j, of the inverse of the lower-triangular factor in A
TriInv(A, n, i, j) ==
  IF i = j THEN RDiv(One, A[j + j * n])
  ELSE RDiv(RNeg(RSum([k \in j..(i - 1) |->
                         RMul(A[i + k * n], TriInv(A, n, k, j))],
                      j, i - 1)),
            A[i + i * n])

\* int CholeskyInv(char UPLO, int N, _F *A, int LDA)   (DPOTRI, UPLO = 'L'):
\* the lower triangle of A becomes that of inv(L)**T * inv(L); the strict
\* upper triangle is not referenced. A zero on the factor's diagonal stops
\* it with INFO = its (1-based) position and A unchanged.
CholeskyInv(UPLO, N, A, LDA) ==
  LET zeros == { i \in 0..(N - 1) : A[i + i * N] = Zero }
  IN  IF zeros # {}
      THEN [A |-> A, INFO |-> 1 + (CHOOSE i \in zeros : \A k \in zeros : i <= k)]
      ELSE [A |-> [idx \in DOMAIN A |->
                     LET i == idx % N
                         j == idx \div N
                     IN  IF i >= j
                         THEN RSum([k \in i..(N - 1) |->
                                      RMul(TriInv(A, N, k, i), TriInv(A, N, k, j))],
                                   i, N - 1)
                         ELSE A[idx]],
            INFO |-> 0]

\* Gemm(TRANSA,TRANSB,M,N,K,ALPHA,A,LDA,B,LDB,BETA,C,LDC):
\* C = ALPHA * op(A) * op(B) + BETA * C; C is not read when BETA is zero
Gemm(TRANSA, TRANSB, M, N, K, ALPHA, A, LDA, B, LDB, BETA, C, LDC) ==
  [idx \in 0..(M * N - 1) |->
     LET i == idx % LDC
         j == idx \div LDC
         opA(r, k) == IF TRANSA = "N" THEN A[r + k * LDA] ELSE A[k + r * LDA]
         opB(k, c) == IF TRANSB = "N" THEN B[k + c * LDB] ELSE B[c + k * LDB]
         ab == RSum([k \in 0..(K - 1) |-> RMul(opA(i, k), opB(k, j))], 0, K - 1)
     IN  IF BETA = Zero THEN RMul(ALPHA, ab)
         ELSE RAdd(RMul(ALPHA, ab), RMul(BETA, C[idx]))]

\* --------------------------------------------------------- memory manager

FreeIds(m) == { b \in 1..Len(m) : ~m[b].alloc }

\* memManager_.malloc<double>(n): the block handed out
MallocId(m) == IF FreeIds(m) = {} THEN Len(m) + 1 ELSE Min(FreeIds(m))

\* the manager after block b was handed out and filled with data
MallocFill(m, b, data) ==
  IF b > Len(m) THEN Append(m, [alloc |-> TRUE, data |-> data])
  ELSE [m EXCEPT ![b] = [alloc |-> TRUE, data |-> data]]

\* memManager_.free(b)
MemFree(m, b) == [m EXCEPT ![b] = [alloc |-> FALSE, data |-> <<>>]]


\* ------------------------------------------------------ overlap matrices
\* The overlap handed to computeOrtho is symmetric (OneEDriver returns it
\* symmetrized). The inputs are S = L * D * L**T for an integer lower-triangular
\* L with a positive diagonal and D = diag(d), d[k] in {1, 0, -1} with at most
\* one entry that is not 1: positive definite when d is all ones, singular with a
\* 0, indefinite with a -1. Their factorizations need only square roots of
\* perfect squares.

OffDiag == {-1, 0, 1}

LowerPairs(n) == { p \in (0..(n - 1)) \X (0..(n - 1)) : p[1] > p[2] }

Signs(n) ==
  { d \in [0..(n - 1) -> {-1, 0, 1}] : Cardinality({ k \in 0..(n - 1) : d[k] # 1 }) <= 1 }

RECURSIVE ISum(_, _, _)
ISum(f, lo, hi) == IF lo > hi THEN 0 ELSE f[lo] + ISum(f, lo + 1, hi)

OverlapFrom(n, diag, off, d) ==
  LET L(i, k) == IF i = k THEN diag[i] ELSE IF i > k THEN off[<<i, k>>] ELSE 0
  IN  [idx \in 0..(n * n - 1) |->
         LET i == idx % n
             j == idx \div n
         IN  R(ISum([k \in 0..(n - 1) |-> L(i, k) * d[k] * L(j, k)], 0, n - 1))]

Overlaps(n) ==
  { OverlapFrom(n, diag, off, d) :
      diag \in [0..(n - 1) -> 1..MaxDiag],
      off \in [LowerPairs(n) -> OffDiag],
      d \in Signs(n) }

\* ------------------------------------------------------------ the actions

InitOrthoVars ==
  /\ nBasis \in 1..MaxNB
  /\ \E S \in Overlaps(nBasis) : mem = << [alloc |-> TRUE, data |-> S] >>
  /\ overlap = 1
  /\ ortho1 = 0 /\ ortho2 = 0 /\ SCR1 = 0
  /\ orthoType \in {"LOWDIN", "CHOLESKY"}
  /\ opc = "idle"
  /\ hist = [calls |-> 0, configured |-> orthoType, cholInfo |-> 0, invInfo |-> 0,
             signalled |-> "none", first |-> <<>>, S0 |-> mem[1].data]

dUnchanged ==
  UNCHANGED <<dvars, cvars>>

\* mutant: the factorization runs on the overlap buffer itself, no scratch copy
OrthoEntry_InPlace ==
  /\ opc = "idle"
  /\ hist.calls < MaxCalls
  /\ LET b1 == MallocId(mem)
         m1 == MallocFill(mem, b1, Zeros(nBasis))
         b2 == MallocId(m1)
         m2 == MallocFill(m1, b2, Zeros(nBasis))
     IN  /\ ortho1' = b1 /\ ortho2' = b2 /\ SCR1' = overlap
         /\ mem' = m2
  /\ orthoType' = "CHOLESKY"
  /\ opc' = "branch"
  /\ hist' = [hist EXCEPT !.configured = orthoType, !.cholInfo = 0, !.invInfo = 0]
  /\ UNCHANGED <<nBasis, overlap>>
  /\ dUnchanged

\* computeOrtho, up to the branch on orthoType_: allocate and zero ortho1 and
\* ortho2, allocate SCR1 and copy the overlap into it, and set orthoType_
OrthoEntry ==
  /\ opc = "idle"
  /\ hist.calls < MaxCalls
  /\ LET b1 == MallocId(mem)
         m1 == MallocFill(mem, b1, Zeros(nBasis))
         b2 == MallocId(m1)
         m2 == MallocFill(m1, b2, Zeros(nBasis))
         b3 == MallocId(m2)
         m3 == MallocFill(m2, b3, m2[overlap].data)
     IN  /\ ortho1' = b1 /\ ortho2' = b2 /\ SCR1' = b3
         /\ mem' = m3
  /\ orthoType' = "CHOLESKY"
  /\ opc' = "branch"
  /\ hist' = [hist EXCEPT !.configured = orthoType, !.cholInfo = 0, !.invInfo = 0]
  /\ UNCHANGED <<nBasis, overlap>>
  /\ dUnchanged

\* The branch on orthoType_. The block of if(orthoType_ == LOWDIN) is never
\* entered, because OrthoEntry has just assigned CHOLESKY (see
\* LowdinBlockUnreachable); it contains no test of the eigenvalues and raises
\* nothing either. So the one step out of "branch" is
\* else if(orthoType_ == CHOLESKY): Cholesky('L',nBasis,SCR1,nBasis); the
\* returned status is dropped (hist records it)
OrthoCholesky ==
  /\ opc = "branch"
  /\ orthoType # "LOWDIN" /\ orthoType = "CHOLESKY"
  /\ LET res == Cholesky("L", nBasis, mem[SCR1].data, nBasis)
     IN  /\ mem' = [mem EXCEPT ![SCR1].data = res.A]
         /\ hist' = [hist EXCEPT !.cholInfo = res.INFO]
  /\ opc' = "copyL"
  /\ UNCHANGED <<nBasis, overlap, ortho1, ortho2, SCR1, orthoType>>
  /\ dUnchanged

\* mutant: the whole scratch matrix is copied, not only its lower triangle
CopyLower_Full(O2, SCR, n) == SCR

\* ortho2[i + j*nBasis] = SCR1[i + j*nBasis] for i >= j
CopyLower(O2, SCR, n) ==
  [idx \in DOMAIN O2 |-> IF idx % n >= idx \div n THEN SCR[idx] ELSE O2[idx]]

OrthoCopyLower ==
  /\ opc = "copyL"
  /\ mem' = [mem EXCEPT ![ortho2].data = CopyLower(@, mem[SCR1].data, nBasis)]
  /\ opc' = "inv"
  /\ UNCHANGED <<nBasis, overlap, ortho1, ortho2, SCR1, orthoType, hist>>
  /\ dUnchanged

\* CholeskyInv('L',nBasis,SCR1,nBasis); the returned status is dropped
OrthoCholeskyInv ==
  /\ opc = "inv"
  /\ LET res == CholeskyInv("L", nBasis, mem[SCR1].data, nBasis)
     IN  /\ mem' = [mem EXCEPT ![SCR1].data = res.A]
         /\ hist' = [hist EXCEPT !.invInfo = res.INFO]
  /\ opc' = "gemm"
  /\ UNCHANGED <<nBasis, overlap, ortho1, ortho2, SCR1, orthoType>>
  /\ dUnchanged

\* Gemm('T','N',nBasis,nBasis,nBasis,1.,ortho2,nBasis,SCR1,nBasis,0.,ortho1,nBasis)
OrthoGemmResult(O2, SCR, O1, n) ==
  Gemm("T", "N", n, n, n, One, O2, n, SCR, n, Zero, O1, n)

OrthoGemm ==
  /\ opc = "gemm"
  /\ mem' = [mem EXCEPT ![ortho1].data =
               OrthoGemmResult(mem[ortho2].data, mem[SCR1].data, @, nBasis)]
  /\ opc' = "zero"
  /\ UNCHANGED <<nBasis, overlap, ortho1, ortho2, SCR1, orthoType, hist>>
  /\ dUnchanged

\* mutant: the strict upper triangle of ortho1 is left as the product made it
ZeroUpper_Skipped(O1, n) == O1

\* ortho1[i + j*nBasis] = 0. for i < j
ZeroUpper(O1, n) ==
  [idx \in DOMAIN O1 |-> IF idx % n < idx \div n THEN Zero ELSE O1[idx]]

OrthoZeroUpper ==
  /\ opc = "zero"
  /\ mem' = [mem EXCEPT ![ortho1].data = ZeroUpper(@, nBasis)]
  /\ opc' = "free"
  /\ UNCHANGED <<nBasis, overlap, ortho1, ortho2, SCR1, orthoType, hist>>
  /\ dUnchanged

\* memManager_.free(SCR1), and the return to the caller
OrthoFree ==
  /\ opc = "free"
  /\ mem' = MemFree(mem, SCR1)
  /\ SCR1' = 0
  /\ opc' = "idle"
  /\ hist' = [hist EXCEPT !.calls = @ + 1,
                          !.first = IF hist.calls = 0
                                    THEN <<mem[ortho1].data, mem[ortho2].data>>
                                    ELSE @]
  /\ UNCHANGED <<nBasis, overlap, ortho1, ortho2, orthoType>>
  /\ dUnchanged

InitOrtho == InitOrthoVars /\ IdleDriver /\ IdleCoreH

NextOrtho ==
  \/ OrthoEntry
  \/ OrthoCholesky
  \/ OrthoCopyLower
  \/ OrthoCholeskyInv
  \/ OrthoGemm
  \/ OrthoZeroUpper
  \/ OrthoFree

SpecOrtho == InitOrtho /\ [][NextOrtho]_vars


\* ------------------------------------------------ computeOrtho: properties
\* hist is a history variable: calls = completed calls; configured = orthoType_
\* as the current (or last) call found it; cholInfo / invInfo = the statuses the
\* kernels returned to that call; signalled = the condition raised to the
\* caller (computeOrtho returns void and has no throw, abort or status, so it
\* stays "none"); first = the pair the first call returned; S0 = the overlap
\* at construction.

At(A, n, i, j) == A[i + j * n]

\* A * B
Prod(A, B, n) ==
  [idx \in 0..(n * n - 1) |->
     RSum([k \in 0..(n - 1) |-> RMul(At(A, n, idx % n, k), At(B, n, k, idx \div n))],
          0, n - 1)]

Transposed(A, n) == [idx \in 0..(n * n - 1) |-> At(A, n, idx \div n, idx % n)]

\* the symmetric matrix whose lower triangle is that of A
SymOfLower(A, n) ==
  [idx \in 0..(n * n - 1) |->
     IF idx % n >= idx \div n THEN A[idx] ELSE At(A, n, idx \div n, idx % n)]

Identity(n) == [idx \in 0..(n * n - 1) |-> IF idx % n = idx \div n THEN One ELSE Zero]

Without(seq, c) == [k \in 1..(Len(seq) - 1) |-> IF k < c THEN seq[k] ELSE seq[k + 1]]

RECURSIVE Det(_, _, _, _)
\* determinant of the submatrix of A with the given rows and columns
Det(A, n, rows, cols) ==
  IF Len(rows) = 0 THEN One
  ELSE RSum([c \in 1..Len(cols) |->
               LET term == RMul(At(A, n, rows[1], cols[c]),
                                Det(A, n, Tail(rows), Without(cols, c)))
               IN  IF c % 2 = 1 THEN term ELSE RNeg(term)],
            1, Len(cols))

\* Sylvester's criterion: a symmetric matrix has only positive eigenvalues iff
\* all its leading principal minors are positive
PosDef(A, n) ==
  \A k \in 1..n :
    LET idxs == [m \in 1..k |-> m - 1]
    IN  Det(A, n, idxs, idxs)[1] > 0

Returned == opc = "idle" /\ hist.calls >= 1

\* C4: a non-zero status of a kernel is checked and aborts the stage: after a
\* failed Cholesky no later step of computeOrtho runs, after a failed
\* CholeskyInv neither, and no pair is returned without the failure being
\* raised to the caller.
C4_KernelStatusChecked ==
  /\ hist.cholInfo # 0 => opc \notin {"inv", "gemm", "zero", "free"}
  /\ hist.invInfo # 0 => opc \notin {"zero", "free"}
  /\ (Returned /\ (hist.cholInfo # 0 \/ hist.invInfo # 0)) => hist.signalled # "none"

\* C5: the branch computeOrtho runs is the configured one and computeOrtho
\* leaves orthoType_ as it found it.
C5_ConfiguredAlgorithmRuns ==
  /\ orthoType = hist.configured
  /\ opc \in {"copyL", "inv", "gemm", "zero", "free"} => hist.configured = "CHOLESKY"

\* C6: for a positive-definite overlap S, whichever algorithm is configured,
\* the returned pair satisfies ortho1 * ortho2 = I; on the way ortho2 = L with
\* L * L**T = S, and the scratch buffer after CholeskyInv holds inv(S) in its
\* lower triangle only (its strict upper triangle is still that of S).
C6_RoundTrip ==
  PosDef(hist.S0, nBasis) =>
    /\ Returned =>
         Prod(mem[ortho1].data, mem[ortho2].data, nBasis) = Identity(nBasis)
    /\ opc \in {"inv", "gemm", "zero", "free"} =>
         /\ Prod(mem[ortho2].data, Transposed(mem[ortho2].data, nBasis), nBasis)
              = hist.S0
         /\ \A i, j \in 0..(nBasis - 1) :
              i < j => At(mem[ortho2].data, nBasis, i, j) = Zero
    /\ opc \in {"gemm", "zero", "free"} =>
         /\ Prod(SymOfLower(mem[SCR1].data, nBasis), hist.S0, nBasis)
              = Identity(nBasis)
         /\ \A i, j \in 0..(nBasis - 1) :
              i < j => At(mem[SCR1].data, nBasis, i, j) = At(hist.S0, nBasis, i, j)

\* C6 witness: a pair was returned for a positive-definite 2x2 overlap with a
\* non-zero off-diagonal, and ortho1 has a fractional entry
C6_Witness ==
  /\ Returned /\ nBasis = 2 /\ PosDef(hist.S0, nBasis)
  /\ At(hist.S0, nBasis, 1, 0) # Zero
  /\ \E idx \in 0..(nBasis * nBasis - 1) : mem[ortho1].data[idx][2] > 1
  /\ Prod(mem[ortho1].data, mem[ortho2].data, nBasis) = Identity(nBasis)

\* C7: computeOrtho never changes the overlap buffer (it works on a scratch
\* copy), and a second call with the unchanged overlap returns the same ortho1
\* and ortho2 values as the first.
C7_Idempotent ==
  /\ mem[overlap].alloc /\ mem[overlap].data = hist.S0
  /\ (opc = "idle" /\ hist.calls >= 2) =>
       <<mem[ortho1].data, mem[ortho2].data>> = hist.first

\* C7 witness: the second call returned, in new buffers, for a 2x2 overlap
\* with a non-zero off-diagonal
C7_Witness ==
  /\ opc = "idle" /\ hist.calls = 2 /\ nBasis = 2
  /\ At(hist.S0, nBasis, 1, 0) # Zero
  /\ hist.first # <<Zeros(nBasis), Zeros(nBasis)>>
  /\ <<mem[ortho1].data, mem[ortho2].data>> = hist.first

\* C10: with the Lowdin algorithm configured and an overlap that has a zero or
\* negative eigenvalue, computeOrtho signals BasisLinearDependence and returns
\* no pair as a valid result.
C10_LinearDependenceSignalled ==
  (Returned /\ hist.configured = "LOWDIN" /\ ~PosDef(hist.S0, nBasis))
    => hist.signalled = "BasisLinearDependence"

\* the Lowdin block (if(orthoType_ == LOWDIN) { ... }) is never entered: the
\* branch is always reached with orthoType_ = CHOLESKY
LowdinBlockUnreachable == opc = "branch" => orthoType = "CHOLESKY"


\* C11: after the Cholesky path both transforms are lower triangular
\* (ortho1[i,j] = ortho2[i,j] = 0 for i < j), and for a positive-definite
\* overlap the lower triangle of ortho2 is the Cholesky factor L: positive
\* diagonal and L * L**T = S, so L[i,0] * L[0,0] = S[i,0] down the first column;
\* for NB = 1 and S = [1] both transforms are [1].
C11_LowerTriangular ==
  Returned =>
    LET O1 == mem[ortho1].data
        O2 == mem[ortho2].data
    IN  /\ \A i, j \in 0..(nBasis - 1) :
             i < j => At(O1, nBasis, i, j) = Zero /\ At(O2, nBasis, i, j) = Zero
        /\ PosDef(hist.S0, nBasis) =>
             /\ \A i \in 0..(nBasis - 1) :
                  /\ At(O2, nBasis, i, i)[1] > 0
                  /\ RMul(At(O2, nBasis, i, 0), At(O2, nBasis, 0, 0))
                       = At(hist.S0, nBasis, i, 0)
             /\ \A i, j \in 0..(nBasis - 1) :
                  i >= j =>
                    RSum([k \in 0..j |-> RMul(At(O2, nBasis, i, k), At(O2, nBasis, j, k))],
                         0, j) = At(hist.S0, nBasis, i, j)
        /\ (nBasis = 1 /\ hist.S0[0] = One) => (O1[0] = One /\ O2[0] = One)

\* C11 witness: a pair was returned for S = [[4,2],[2,2]], whose factor is
\* L = [[2,0],[1,1]]; ortho1 = inv(L) = [[1/2,0],[-1/2,1]]
C11_Witness ==
  /\ Returned /\ nBasis = 2
  /\ hist.S0 = [idx \in 0..3 |-> IF idx = 0 THEN R(4) ELSE R(2)]
  /\ At(mem[ortho2].data, 2, 0, 0) = R(2)
  /\ At(mem[ortho2].data, 2, 1, 0) = One
  /\ At(mem[ortho2].data, 2, 1, 1) = One
  /\ At(mem[ortho2].data, 2, 0, 1) = Zero
  /\ At(mem[ortho1].data, 2, 0, 1) = Zero
  /\ At(mem[ortho1].data, 2, 1, 0) = <<-1, 2>>


\* the block of pair p = <<s1, s2>>: the rows of shell s1 by the columns of
\* shell s2, as sets of basis-function indices
BlockOf(p) ==
  (SumTo(shells, p[1])..(SumTo(shells, p[1]) + ShellSize(p[1]) - 1))
    \X (SumTo(shells, p[2])..(SumTo(shells, p[2]) + ShellSize(p[2]) - 1))

\* the pairs (s1, s2), s2 <= s1, the loop runs over
ShellPairs ==
  { p \in (0..(Len(shells) - 1)) \X (0..(Len(shells) - 1)) : p[2] <= p[1] }

\* for the shell set at hand: the blocks of the pairs s2 <= s1 stay inside the
\* NB x NB matrix, blocks of distinct pairs never overlap, together they cover
\* every element of the lower triangle, and the block of (s1,s2) holds exactly
\* the elements whose row is a basis function of s1 and whose column one of s2
BlocksTileLower ==
  LET so     == ShellMap
      pairs  == ShellPairs
      all    == BasisRange \X BasisRange
      blocks == [p \in pairs |-> BlockOf(p)]
  IN  /\ \A p \in pairs : blocks[p] \subseteq all
      /\ \A p, q \in pairs : p # q => blocks[p] \cap blocks[q] = {}
      /\ \A e \in all : e[1] >= e[2] => \E p \in pairs : e \in blocks[p]
      /\ \A p \in pairs :
           /\ Cardinality(blocks[p]) = ShellSize(p[1]) * ShellSize(p[2])
           /\ blocks[p] = { e \in all : so[e[1] + 1] = p[1] /\ so[e[2] + 1] = p[2] }

\* C12: the block of a non-screened pair (s1,s2), s2 <= s1, is written at row
\* offset = sum of the sizes of the shells before s1 and column offset = sum of
\* the sizes of the shells before s2, with extent size(s1) x size(s2): a thread
\* at a pair holds exactly these offsets, a written pair's block holds the
\* engine's integrals of exactly its basis functions and nothing is written
\* elsewhere. For every shell set the blocks stay inside the NB x NB matrix,
\* blocks of distinct pairs never overlap, and together they cover every
\* element of the lower triangle (the shell set never changes during a call, so
\* this part is evaluated where the threads enter the loop).
C12_BlocksPlaced ==
  dpc \in {"parallel", "returned"} =>
    LET NB == NBof(shells)
        so == ShellMap
    IN  /\ (dpc = "parallel" /\ \A t \in DOMAIN thr : thr[t].s12 = 0) => BlocksTileLower
        /\ \A t \in DOMAIN thr :
             thr[t].pc = "loop" =>
               /\ thr[t].s2 <= thr[t].s1 /\ thr[t].s1 < Len(shells)
               /\ thr[t].bf1_s = SumTo(shells, thr[t].s1)
               /\ thr[t].bf2_s = SumTo(shells, thr[t].s2)
               /\ thr[t].bf1_s + ShellSize(thr[t].s1) <= NB
               /\ thr[t].bf2_s + ShellSize(thr[t].s2) <= NB
        /\ \A p \in DOMAIN writtenBy : writtenBy[p] # {} => p \notin screened
        /\ \A i, j \in BasisRange :
             LET s1 == so[i + 1]
                 s2 == so[j + 1]
             IN  IF s2 <= s1
                 THEN (dpc = "parallel" \/ i >= j) =>
                        \A iMat \in DOMAIN mats :
                          mats[iMat][i + j * NB] =
                            IF writtenBy[PairIndex(s1, s2)] # {}
                            THEN EngineVal(iMat, i, j) ELSE 0
                 ELSE dpc = "parallel" =>
                        \A iMat \in DOMAIN mats : mats[iMat][i + j * NB] = 0

\* C12 witness: with shells of sizes 1 and 2 and nothing screened, every
\* thread has run all three pairs: the 2 x 1 block of pair (1,0) sits at rows
\* 1..2 of column 0, the 2 x 2 block of pair (1,1) at rows and columns 1..2,
\* and the element (0,1) outside every block is untouched
C12_Witness ==
  /\ dpc = "parallel" /\ shells = <<1, 2>> /\ screened = {} /\ nthreads = 2
  /\ \A t \in DOMAIN thr : thr[t].pc = "end"
  /\ mats[0][0 + 0 * 3] = EngineVal(0, 0, 0)
  /\ mats[0][1 + 0 * 3] = EngineVal(0, 1, 0)
  /\ mats[0][2 + 0 * 3] = EngineVal(0, 2, 0)
  /\ mats[0][2 + 1 * 3] = EngineVal(0, 2, 1)
  /\ mats[0][1 + 2 * 3] = EngineVal(0, 1, 2)
  /\ mats[0][0 + 1 * 3] = 0 /\ mats[0][0 + 2 * 3] = 0


\* C13: allocator discipline of computeOrtho: whenever computeOrtho is not
\* running, its scratch has been freed and every buffer still allocated, other
\* than the caller's overlap, is the one the ortho1 or the ortho2 field refers
\* to, so no result buffer of an earlier call is left allocated but
\* unreferenced.
C13_AllocatorDiscipline ==
  opc = "idle" =>
    /\ SCR1 = 0
    /\ \A b \in 1..Len(mem) :
         (mem[b].alloc /\ b # overlap) => b \in {ortho1, ortho2}

====
